---- MODULE Spec2Model ----
(***************************************************************************)
(* A model of the buffered channel of kevink2022/channels.                 *)
(*                                                                         *)
(* The modelled revision is the one whose types are declared in            *)
(* src/channel.h (request_t holding one semaphore, queue_entry_t holding   *)
(* one request pointer) and whose functions are in src/unnamed/part_001,   *)
(* over the list of src/linked_list.c.  One channel is shared by the       *)
(* threads; every thread repeatedly calls one of the public operations.    *)
(* A step of a thread is one critical section of channel->lock, from the   *)
(* pthread_mutex_lock to the unlock, with the thread-local code that       *)
(* follows it up to the next lock or semaphore operation.                  *)
(***************************************************************************)
EXTENDS Integers, Sequences, FiniteSets, TLC

\* Bounds of the model.
NThreads == 3
Capacity == 2
MaxCalls == 3
MaxSelect == 2

Threads == 1..NThreads

\* enum channel_status
CHANNEL_EMPTY == 0
CHANNEL_FULL == 0
SUCCESS == 1
CLOSED_ERROR == -2
GEN_ERROR == -1
DESTROY_ERROR == -3

\* enum direction
Directions == {"SEND", "RECV"}

Ops == {"send", "recv", "nb_send", "nb_recv", "close", "destroy", "select"}
BlockingOps == {"send", "recv"}
SendOps == {"send", "nb_send"}
RecvOps == {"recv", "nb_recv"}

VARIABLES
    buffer,      \* channel->buffer: the messages held, oldest first
    closed,      \* channel->closed
    send_queue,  \* channel->send_queue: requests of the entries, head first
    recv_queue,  \* channel->recv_queue
    sem,         \* sem[r]: value of request r's semaphore (r is its owner)
    pc,          \* position of each thread
    op,          \* the operation a thread is in, "none" outside a call
    data,        \* the message a sending thread passes
    last,        \* the call that returned last: the operation, the value
                 \* returned, what it stored through its data pointer and
                 \* through selected_index (<<>>: nothing), and the indices
                 \* of the list whose operation it performed
    nCalls,      \* calls made so far
    pending,     \* messages of successful sends not yet taken by a
                 \* successful receive, in the order of the sends
    outstanding, \* successful sends minus successful receives
    send_order,  \* the threads in send_queue, in the order they registered
    recv_order,  \* the threads in recv_queue, in the order they registered
    owed,        \* the complementary operation succeeded after a failed attempt
    lock,        \* channel->lock between two steps: TRUE when a thread holds it
    heap,        \* "live": the channel is allocated; "freed": channel_destroy
                 \* has freed it; "crashed": the process was ended by a fault
    requests,    \* requests[t]: "live" while the request_t that thread t
                 \* allocated with init_request() is allocated, "none" before
                 \* the malloc and after the free
    holds,       \* the threads that are, between two steps, past a
                 \* pthread_mutex_lock(&(channel->lock)) and before the unlock
    service_request,
                 \* the service_request_t of each thread in the revision of
                 \* src/channel.c that counts a request's queue entries
    linked_list  \* a list_t of linked_list.c with its nodes, pointer by
                 \* pointer

vars == <<buffer, closed, send_queue, recv_queue, sem, pc, op, data, last,
          nCalls, pending, outstanding, send_order, recv_order, owed, lock,
          heap, requests, holds,
                   service_request,
                   linked_list>>

\* A pointer argument is the sequence of what it points to: NULL points to
\* nothing.
NULL == <<>>

-----------------------------------------------------------------------------
\* buffer.h (the ring buffer is outside src/): a FIFO of at most Capacity.

\* A test that lets one element more into the buffer.
buffer_full_late(buf) == Len(buf) = Capacity + 1

\* A buffer that never reports itself full.
buffer_full_never(buf) == Len(buf) > Capacity

buffer_full(buf) == Len(buf) = Capacity

buffer_empty(buf) == 0 = Len(buf)

buffer_add(buf, d) == Append(buf, d)

buffer_remove(buf) == [buffer |-> Tail(buf), data |-> Head(buf)]

-----------------------------------------------------------------------------
\* linked_list.c, for a list created without a compare function.

list_insert(list, d) ==
    IF list = <<>> THEN <<d>> ELSE <<d>> \o list

list_find(list, d) ==
    IF \E i \in 1..Len(list) : list[i] = d
    THEN CHOOSE i \in 1..Len(list) :
             list[i] = d /\ \A j \in 1..(i - 1) : list[j] # d
    ELSE 0

list_remove(list, i) ==
    [j \in 1..(Len(list) - 1) |-> IF j < i THEN list[j] ELSE list[j + 1]]

-----------------------------------------------------------------------------
\* linked_list.c pointer by pointer.  A node is a number of Nodes and 0 stands
\* for NULL; l.node is the memory of the nodes, which malloc hands out.
MaxNodes == 3
MaxData == 2
Nodes == 1..MaxNodes

\* A compare_fn: NULL, or a function that orders the data as numbers.
Compares == {"NULL", "order"}

compare(a, b) == IF a < b THEN -1 ELSE IF a = b THEN 0 ELSE 1

list_create(fn) ==
    [alloc |-> "live", head |-> 0, tail |-> 0, count |-> 0, compare |-> fn,
     node |-> [n \in Nodes |->
                  [next |-> 0, prev |-> 0, data |-> 0, alloc |-> "none"]]]

list_head(l) == l.head

list_tail(l) == l.tail

list_next(l, n) == l.node[n].next

list_prev(l, n) == l.node[n].prev

list_data(l, n) == l.node[n].data

list_count(l) == l.count

\* What a freed node holds is not kept.
FreedNode == [next |-> 0, prev |-> 0, data |-> 0, alloc |-> "freed"]

\* A dereference of NULL ends the process.
NullDeref(l) == [l EXCEPT !.alloc = "crashed"]

\* The for loop of list_insert at comp_node, after i turns; the code after
\* the loop when i has reached the count.
RECURSIVE list_insert_loop(_, _, _, _)
list_insert_loop(l, new_node, comp_node, i) ==
    IF i >= list_count(l)
    THEN LET t == list_tail(l) IN
         IF t = 0 THEN NullDeref(l)
         ELSE [l EXCEPT !.node[new_node].prev = t,
                        !.node[new_node].next = 0,
                        !.tail = new_node,
                        !.node[t].next = new_node,
                        !.count = @ + 1]
    ELSE IF comp_node = 0 THEN NullDeref(l)
    ELSE LET ret == compare(list_data(l, new_node), list_data(l, comp_node))
             p == list_prev(l, comp_node)
             x == list_next(l, comp_node) IN
         IF ret = -1
         THEN IF comp_node = list_head(l)
              THEN [l EXCEPT !.node[new_node].next = comp_node,
                             !.node[new_node].prev = 0,
                             !.head = new_node,
                             !.node[comp_node].prev = new_node,
                             !.count = @ + 1]
              ELSE IF p = 0 THEN NullDeref(l)
              ELSE [l EXCEPT !.node[new_node].next = comp_node,
                             !.node[new_node].prev = p,
                             !.node[p].next = new_node,
                             !.node[comp_node].prev = new_node,
                             !.count = @ + 1]
         ELSE IF ret = 0
         THEN IF comp_node = list_tail(l)
              THEN [l EXCEPT !.node[new_node].prev = comp_node,
                             !.node[new_node].next = 0,
                             !.tail = new_node,
                             !.node[comp_node].next = new_node,
                             !.count = @ + 1]
              ELSE IF x = 0 THEN NullDeref(l)
              ELSE [l EXCEPT !.node[new_node].prev = comp_node,
                             !.node[new_node].next = x,
                             !.node[x].prev = new_node,
                             !.node[comp_node].next = new_node,
                             !.count = @ + 1]
         ELSE list_insert_loop(l, new_node, x, i + 1)

\* An insert that, without a compare function, places the node at the tail.
list_insert_node_at_tail(l, new_node, d) ==
    LET m == [l EXCEPT !.node[new_node].alloc = "live",
                       !.node[new_node].data = d]
        comp_node == list_head(m) IN
    IF comp_node = 0
    THEN [m EXCEPT !.head = new_node,
                   !.tail = new_node,
                   !.node[new_node].next = 0,
                   !.node[new_node].prev = 0,
                   !.count = @ + 1]
    ELSE list_insert_loop(m, new_node, comp_node, list_count(m))

\* list_insert; new_node is the node that malloc returns.
list_insert_node(l, new_node, d) ==
    LET m == [l EXCEPT !.node[new_node].alloc = "live",
                       !.node[new_node].data = d]
        comp_node == list_head(m) IN
    IF comp_node = 0
    THEN [m EXCEPT !.head = new_node,
                   !.tail = new_node,
                   !.node[new_node].next = 0,
                   !.node[new_node].prev = 0,
                   !.count = @ + 1]
    ELSE IF m.compare # "NULL"
    THEN list_insert_loop(m, new_node, comp_node, 0)
    ELSE [m EXCEPT !.node[new_node].next = comp_node,
                   !.node[new_node].prev = 0,
                   !.head = new_node,
                   !.node[comp_node].prev = new_node,
                   !.count = @ + 1]

\* A remove that leaves the prev pointer of the new head as it was.
list_remove_node_keeps_prev(l, node) ==
    LET p == list_prev(l, node)
        x == list_next(l, node)
        u == IF node = list_head(l)
             THEN IF node = list_tail(l)
                  THEN [l EXCEPT !.head = 0, !.tail = 0]
                  ELSE [l EXCEPT !.head = x]
             ELSE IF node = list_tail(l)
                  THEN IF p = 0 THEN NullDeref(l)
                       ELSE [l EXCEPT !.tail = p, !.node[p].next = 0]
                  ELSE IF p = 0 \/ x = 0 THEN NullDeref(l)
                       ELSE [l EXCEPT !.node[p].next = x, !.node[x].prev = p]
    IN
    [u EXCEPT !.count = @ - 1, !.node[node] = FreedNode]

\* list_remove of a node of the list (anything else is the caller's error,
\* lines 181-184).
list_remove_node(l, node) ==
    LET p == list_prev(l, node)
        x == list_next(l, node)
        u == IF node = list_head(l)
             THEN IF node = list_tail(l)
                  THEN [l EXCEPT !.head = 0, !.tail = 0]
                  ELSE IF x = 0 THEN NullDeref(l)
                       ELSE [l EXCEPT !.head = x, !.node[x].prev = 0]
             ELSE IF node = list_tail(l)
                  THEN IF p = 0 THEN NullDeref(l)
                       ELSE [l EXCEPT !.tail = p, !.node[p].next = 0]
                  ELSE IF p = 0 \/ x = 0 THEN NullDeref(l)
                       ELSE [l EXCEPT !.node[p].next = x, !.node[x].prev = p]
    IN
    [u EXCEPT !.count = @ - 1, !.node[node] = FreedNode]

\* The while loop of list_destroy.
RECURSIVE list_destroy_loop(_, _)
list_destroy_loop(l, node) ==
    IF node = 0 \/ l.alloc # "live" THEN l
    ELSE LET r == list_remove_node(l, node) IN
         list_destroy_loop(r, list_head(r))

list_destroy(l) ==
    LET r == list_destroy_loop(l, list_head(l)) IN
    IF r.alloc = "live" THEN [r EXCEPT !.alloc = "freed"] ELSE r

-----------------------------------------------------------------------------
\* The queue helpers.  A queue entry is identified with the request it
\* points to, and a request with the thread that allocated it.

\* An add that inserts two entries for the request.
queue_add_twice(queue, request) ==
    list_insert(list_insert(queue, request), request)

queue_add(queue, request) == list_insert(queue, request)

\* 0 stands for NULL
queue_next(queue) == IF queue = <<>> THEN 0 ELSE queue[1]

queue_remove(queue, entry) == list_remove(queue, list_find(queue, entry))

\* A serve that posts the request of the head entry and leaves the entry in
\* the queue.
queue_serve_keeps_entry(st, q) ==
    LET entry == queue_next(st[q]) IN
    IF entry # 0
    THEN [st EXCEPT !.sem[entry] = @ + 1]
    ELSE st

\* A serve that posts every request of the queue and empties it.
queue_serve_all(st, q) ==
    [st EXCEPT !.sem = [u \in DOMAIN @ |->
                           IF \E i \in 1..Len(st[q]) : st[q][i] = u
                           THEN @[u] + 1 ELSE @[u]],
               ![q] = <<>>]

\* st is the channel with the semaphores; q names the queue served.
queue_serve(st, q) ==
    LET entry == queue_next(st[q]) IN
    IF entry # 0
    THEN [st EXCEPT !.sem[entry] = @ + 1, ![q] = queue_remove(@, entry)]
    ELSE st

-----------------------------------------------------------------------------
\* channel_unsafe_send / channel_unsafe_receive: the new channel, the status
\* and (receive) what is stored through the data pointer.

\* A send that reports SUCCESS on a full buffer without adding the message.
channel_unsafe_send_drops(st, d) ==
    IF st.closed
    THEN [st |-> IF Len(st.send_queue) # 0
                 THEN queue_serve(st, "send_queue") ELSE st,
          ret |-> CLOSED_ERROR]
    ELSE LET added == IF buffer_full(st.buffer) THEN st
                      ELSE [st EXCEPT !.buffer = buffer_add(@, d)] IN
         [st |-> IF Len(added.recv_queue) # 0
                 THEN queue_serve(added, "recv_queue") ELSE added,
          ret |-> SUCCESS]

\* A send that tests for a full buffer before it tests the closed flag.
channel_unsafe_send_full_first(st, d) ==
    IF buffer_full(st.buffer)
    THEN [st |-> st, ret |-> CHANNEL_FULL]
    ELSE IF st.closed
    THEN [st |-> IF Len(st.send_queue) # 0
                 THEN queue_serve(st, "send_queue") ELSE st,
          ret |-> CLOSED_ERROR]
    ELSE LET added == [st EXCEPT !.buffer = buffer_add(@, d)] IN
         [st |-> IF Len(added.recv_queue) # 0
                 THEN queue_serve(added, "recv_queue") ELSE added,
          ret |-> SUCCESS]

channel_unsafe_send(st, d) ==
    IF st.closed
    THEN [st |-> IF Len(st.send_queue) # 0
                 THEN queue_serve(st, "send_queue") ELSE st,
          ret |-> CLOSED_ERROR]
    ELSE IF buffer_full(st.buffer)
    THEN [st |-> st, ret |-> CHANNEL_FULL]
    ELSE LET added == [st EXCEPT !.buffer = buffer_add(@, d)] IN
         [st |-> IF Len(added.recv_queue) # 0
                 THEN queue_serve(added, "recv_queue") ELSE added,
          ret |-> SUCCESS]

\* A receive that refuses a closed channel only once the buffer is drained.
channel_unsafe_receive_drains(st) ==
    IF st.closed /\ buffer_empty(st.buffer)
    THEN [st |-> IF Len(st.recv_queue) # 0
                 THEN queue_serve(st, "recv_queue") ELSE st,
          ret |-> CLOSED_ERROR, stored |-> <<>>]
    ELSE IF buffer_empty(st.buffer)
    THEN [st |-> st, ret |-> CHANNEL_EMPTY, stored |-> <<>>]
    ELSE LET rem == buffer_remove(st.buffer)
             removed == [st EXCEPT !.buffer = rem.buffer] IN
         [st |-> IF Len(removed.send_queue) # 0
                 THEN queue_serve(removed, "send_queue") ELSE removed,
          ret |-> SUCCESS, stored |-> <<rem.data>>]

\* A receive that removes a message before it looks at the closed flag.
channel_unsafe_receive_removes_first(st) ==
    LET rem == IF buffer_empty(st.buffer)
               THEN [buffer |-> st.buffer, data |-> 0]
               ELSE buffer_remove(st.buffer)
        got == IF buffer_empty(st.buffer) THEN <<>> ELSE <<rem.data>>
        removed == [st EXCEPT !.buffer = rem.buffer] IN
    IF st.closed
    THEN [st |-> IF Len(removed.recv_queue) # 0
                 THEN queue_serve(removed, "recv_queue") ELSE removed,
          ret |-> CLOSED_ERROR, stored |-> got]
    ELSE IF buffer_empty(st.buffer)
    THEN [st |-> st, ret |-> CHANNEL_EMPTY, stored |-> <<>>]
    ELSE [st |-> IF Len(removed.send_queue) # 0
                 THEN queue_serve(removed, "send_queue") ELSE removed,
          ret |-> SUCCESS, stored |-> got]

channel_unsafe_receive(st) ==
    IF st.closed
    THEN [st |-> IF Len(st.recv_queue) # 0
                 THEN queue_serve(st, "recv_queue") ELSE st,
          ret |-> CLOSED_ERROR, stored |-> <<>>]
    ELSE IF buffer_empty(st.buffer)
    THEN [st |-> st, ret |-> CHANNEL_EMPTY, stored |-> <<>>]
    ELSE LET rem == buffer_remove(st.buffer)
             removed == [st EXCEPT !.buffer = rem.buffer] IN
         [st |-> IF Len(removed.send_queue) # 0
                 THEN queue_serve(removed, "send_queue") ELSE removed,
          ret |-> SUCCESS, stored |-> <<rem.data>>]

\* A close that serves the waiter queues whether or not the channel was
\* already closed.
channel_close_serves_again(st) ==
    LET c == [st EXCEPT !.closed = TRUE]
        r == IF Len(c.recv_queue) # 0
             THEN queue_serve(c, "recv_queue") ELSE c
        s == IF Len(r.send_queue) # 0
             THEN queue_serve(r, "send_queue") ELSE r IN
    [st |-> s, ret |-> IF st.closed THEN CLOSED_ERROR ELSE SUCCESS]

\* A close that opens a closed channel again.
channel_close_reopens(st) ==
    IF ~st.closed
    THEN LET c == [st EXCEPT !.closed = TRUE]
             r == IF Len(c.recv_queue) # 0
                  THEN queue_serve(c, "recv_queue") ELSE c
             s == IF Len(r.send_queue) # 0
                  THEN queue_serve(r, "send_queue") ELSE r IN
         [st |-> s, ret |-> SUCCESS]
    ELSE [st |-> [st EXCEPT !.closed = FALSE], ret |-> CLOSED_ERROR]

\* A close that also empties the buffer.
channel_close_drains(st) ==
    IF ~st.closed
    THEN LET c == [st EXCEPT !.closed = TRUE, !.buffer = <<>>]
             r == IF Len(c.recv_queue) # 0
                  THEN queue_serve(c, "recv_queue") ELSE c
             s == IF Len(r.send_queue) # 0
                  THEN queue_serve(r, "send_queue") ELSE r IN
         [st |-> s, ret |-> SUCCESS]
    ELSE [st |-> st, ret |-> CLOSED_ERROR]

\* The body of channel_close between lock and unlock.
channel_close(st) ==
    IF ~st.closed
    THEN LET c == [st EXCEPT !.closed = TRUE]
             r == IF Len(c.recv_queue) # 0
                  THEN queue_serve(c, "recv_queue") ELSE c
             s == IF Len(r.send_queue) # 0
                  THEN queue_serve(r, "send_queue") ELSE r IN
         [st |-> s, ret |-> SUCCESS]
    ELSE [st |-> st, ret |-> CLOSED_ERROR]

\* channel_destroy.  The function starts with
\* pthread_mutex_lock(&(channel->lock)) and has no test of its argument:
\* called with NULL it hands the lock function an address in the unmapped
\* first page, and the access ends the process.  On a closed channel it
\* frees the buffer, both lists and the channel (after the unlock) without
\* looking at the waiter queues; what the freed memory held stays as it was
\* in st.  On an open channel it unlocks and returns DESTROY_ERROR.
\* A destroy that returns DESTROY_ERROR without the unlock.
channel_destroy_keeps_lock(ch) ==
    IF ch = NULL
    THEN [st |-> ch, ret |-> <<>>, heap |-> "crashed", lock |-> FALSE]
    ELSE IF ch[1].closed
    THEN [st |-> ch, ret |-> <<SUCCESS>>, heap |-> "freed", lock |-> FALSE]
    ELSE [st |-> ch, ret |-> <<DESTROY_ERROR>>, heap |-> "live", lock |-> TRUE]

\* A destroy that frees the channel without testing the closed flag.
channel_destroy_unchecked(ch) ==
    IF ch = NULL
    THEN [st |-> ch, ret |-> <<>>, heap |-> "crashed", lock |-> FALSE]
    ELSE [st |-> ch, ret |-> <<SUCCESS>>, heap |-> "freed", lock |-> FALSE]

channel_destroy(ch) ==
    IF ch = NULL
    THEN [st |-> ch, ret |-> <<>>, heap |-> "crashed", lock |-> FALSE]
    ELSE IF ch[1].closed
    THEN [st |-> ch, ret |-> <<SUCCESS>>, heap |-> "freed", lock |-> FALSE]
    ELSE [st |-> ch, ret |-> <<DESTROY_ERROR>>, heap |-> "live", lock |-> FALSE]

\* channel_select: the body is "return SUCCESS".  index is what the size_t
\* that selected_index points to holds when the function is called; acted is
\* the set of the indices of the listed operations that were performed.
channel_select(list, index) ==
    [ret |-> SUCCESS, selected_index |-> index, acted |-> {}]

\* A request whose semaphore is initialised to 1.
init_request_one(sems, r) == [sems EXCEPT ![r] = 1]

\* init_request(): sem_init(&new_request->sem, 0, 0)
init_request(sems, r) == [sems EXCEPT ![r] = 0]

\* destroy_request(): sem_destroy and free of the request.
destroy_request(reqs, r) == [reqs EXCEPT ![r] = "none"]

-----------------------------------------------------------------------------
\* A pthread_mutex_lock that returns whether or not the mutex is locked.
Locks_nowait(t) == heap # "crashed"

\* pthread_mutex_lock(&(channel->lock)) of thread t has returned: the thread
\* took the lock in an earlier step, or the lock is free and the thread takes
\* it in this one (and the process runs).
Locks(t) == heap # "crashed" /\ (t \in holds \/ ~lock)

\* pthread_mutex_unlock(&(channel->lock)) of thread t.
Unlock(t) == lock' = FALSE /\ holds' = holds \ {t}

Channel ==
    [buffer |-> buffer, closed |-> closed, send_queue |-> send_queue,
     recv_queue |-> recv_queue, sem |-> sem]

InQueue(queue, u) == \E i \in 1..Len(queue) : queue[i] = u

\* The registration order of the threads still in queue.
Keep(order, queue) == SelectSeq(order, LAMBDA u : InQueue(queue, u))

\* The shared variables become those of st.
Store(st) ==
    /\ buffer' = st.buffer
    /\ closed' = st.closed
    /\ send_queue' = st.send_queue
    /\ recv_queue' = st.recv_queue
    /\ send_order' = Keep(send_order, st.send_queue)
    /\ recv_order' = Keep(recv_order, st.recv_queue)

\* The unsafe operation of thread t's call.
Unsafe(t, st) ==
    IF op[t] \in SendOps
    THEN LET r == channel_unsafe_send(st, data[t]) IN
         [st |-> r.st, ret |-> r.ret, stored |-> <<>>]
    ELSE channel_unsafe_receive(st)

RemoveFirst(seq, v) ==
    IF \E i \in 1..Len(seq) : seq[i] = v
    THEN LET k == CHOOSE i \in 1..Len(seq) :
                      seq[i] = v /\ \A j \in 1..(i - 1) : seq[j] # v IN
         [j \in 1..(Len(seq) - 1) |-> IF j < k THEN seq[j] ELSE seq[j + 1]]
    ELSE seq

\* Bookkeeping of the result r of an attempt of thread t.
Account(t, r) ==
    /\ pending' = IF r.ret # SUCCESS THEN pending
                  ELSE IF op[t] \in SendOps THEN Append(pending, data[t])
                  ELSE IF r.stored # <<>> THEN RemoveFirst(pending, r.stored[1])
                  ELSE pending
    /\ outstanding' = IF r.ret # SUCCESS THEN outstanding
                      ELSE IF op[t] \in SendOps THEN outstanding + 1
                      ELSE outstanding - 1

\* Thread t returns v from its call, having stored what the record says.
Return(t, v, stored) ==
    /\ last' = [op |-> op[t], ret |-> v, out |-> stored,
                selected_index |-> 0, acted |-> {}]
    /\ pc' = [pc EXCEPT ![t] = "idle"]
    /\ op' = [op EXCEPT ![t] = "none"]
    /\ data' = [data EXCEPT ![t] = 0]

\* Every operation goes on to wait when its attempt fails.
Blocks_all(o, ret) ==
    \/ o \in SendOps /\ ret = CHANNEL_FULL
    \/ o \in RecvOps /\ ret = CHANNEL_EMPTY

\* The test after the first non-blocking call: channel_send goes on to wait
\* if (ret == CHANNEL_FULL), channel_receive if (ret == CHANNEL_EMPTY); the
\* non-blocking functions return what the attempt returned.
Blocks(o, ret) ==
    \/ o = "send" /\ ret = CHANNEL_FULL
    \/ o = "recv" /\ ret = CHANNEL_EMPTY

\* Threads inside a blocking operation o that failed their attempt.
Blocked(o) ==
    {u \in Threads : op[u] = o /\ pc[u] \in {"register", "wait", "retry"}}

\* A wake-up is owed to u when the complementary operation succeeds while u
\* is the only thread blocked in its operation and has not been posted; it
\* is no longer owed once u returns SUCCESS or another thread's operation of
\* u's kind succeeds.
Owe(t, r) ==
    LET same == IF op[t] \in SendOps THEN "send" ELSE "recv"
        compl == IF op[t] \in SendOps THEN "recv" ELSE "send" IN
    IF r.ret # SUCCESS THEN owed
    ELSE [u \in Threads |->
            IF u = t THEN FALSE
            ELSE IF op[u] = same THEN FALSE
            ELSE IF Blocked(compl) = {u} /\ pc[u] \in {"register", "wait"}
                    /\ sem[u] = 0
            THEN TRUE
            ELSE owed[u]]

-----------------------------------------------------------------------------
\* No service_request_t has been allocated by the thread.
NoRequest ==
    [alloc |-> "none", valid |-> FALSE, instances |-> 0, sem |-> 0,
     lock |-> "unlocked"]

\* The channel after channel_create(Capacity) and n sends of the messages
\* -1, .., -n that returned SUCCESS, with every thread outside a call.
Init ==
    /\ \E n \in 0..Capacity : buffer = [i \in 1..n |-> 0 - i]
    /\ closed = FALSE
    /\ send_queue = <<>>
    /\ recv_queue = <<>>
    /\ sem = [t \in Threads |-> 0]
    /\ pc = [t \in Threads |-> "idle"]
    /\ op = [t \in Threads |-> "none"]
    /\ data = [t \in Threads |-> 0]
    /\ last = [op |-> "none", ret |-> 0, out |-> <<>>,
               selected_index |-> 0, acted |-> {}]
    /\ nCalls = 0
    /\ pending = buffer
    /\ outstanding = Len(buffer)
    /\ send_order = <<>>
    /\ recv_order = <<>>
    /\ owed = [t \in Threads |-> FALSE]
    /\ lock = FALSE
    /\ holds = {}
    /\ heap = "live"
    /\ requests = [t \in Threads |-> "none"]
    /\ service_request = [t \in Threads |-> NoRequest]
    /\ linked_list = list_create("NULL")

\* The thread that makes a call which leaves nothing of the caller in the
\* state (the call returns, or ends the process, in the step that makes it):
\* the threads outside a call are alike, and the first of them makes it.
Caller(t) ==
    /\ pc[t] = "idle"
    /\ \A u \in Threads : pc[u] = "idle" => t <= u

\* A thread calls send, receive, a non-blocking variant or close.  The
\* message of a send is the number of the call, so messages are distinct.
Call(t, o) ==
    /\ pc[t] = "idle"
    /\ heap = "live"
    /\ nCalls < MaxCalls
    /\ o \in Ops \ {"select", "destroy"}
    /\ nCalls' = nCalls + 1
    /\ op' = [op EXCEPT ![t] = o]
    /\ data' = [data EXCEPT ![t] = IF o \in SendOps THEN nCalls + 1 ELSE 0]
    /\ pc' = [pc EXCEPT ![t] = IF o = "close" THEN "close" ELSE "attempt"]
    /\ UNCHANGED <<buffer, closed, send_queue, recv_queue, sem, last, pending,
                   outstanding, send_order, recv_order, owed, lock, heap,
                   requests, holds,
                   service_request,
                   linked_list>>

\* A thread calls channel_select with a list of operations on the channel,
\* and the call returns: the function takes no lock and waits for nothing.
\* The listed operations have the indices 0 .. Len(list) - 1; the size_t
\* that selected_index points to holds whatever the caller left in it, one
\* of these indices or a value that is none of them (Len(list)).
Select(t, list, index) ==
    /\ Caller(t)
    /\ index \in 0..Len(list)
    /\ heap = "live"
    /\ nCalls < MaxCalls
    /\ nCalls' = nCalls + 1
    /\ LET r == channel_select(list, index) IN
       last' = [op |-> "select", ret |-> r.ret, out |-> <<>>,
                selected_index |-> r.selected_index, acted |-> r.acted]
    /\ UNCHANGED <<buffer, closed, send_queue, recv_queue, sem, pc, op, data,
                   pending, outstanding, send_order, recv_order, owed, lock,
                   heap, requests, holds,
                   service_request,
                   linked_list>>

\* channel_non_blocking_send / _receive: lock, the unsafe operation, unlock.
\* This is the whole of a non-blocking call and the first attempt of a
\* blocking one, which goes on to init_request() when the result is
\* CHANNEL_FULL / CHANNEL_EMPTY and returns the result otherwise.
Attempt(t) ==
    /\ pc[t] = "attempt"
    /\ Locks(t)
    /\ LET r == Unsafe(t, Channel) IN
       /\ Store(r.st)
       /\ Account(t, r)
       /\ owed' = Owe(t, r)
       /\ IF Blocks(op[t], r.ret)
          THEN /\ sem' = init_request(r.st.sem, t)
               /\ requests' = [requests EXCEPT ![t] = "live"]
               /\ pc' = [pc EXCEPT ![t] = "register"]
               /\ UNCHANGED <<op, data, last>>
          ELSE /\ sem' = r.st.sem
               /\ Return(t, r.ret, r.stored)
               /\ UNCHANGED requests
    /\ Unlock(t)
    /\ UNCHANGED <<nCalls, heap, service_request,
                   linked_list>>

\* A registration that puts the request of a receive in the send queue.
Register_send_queue(t) ==
    /\ pc[t] = "register"
    /\ Locks(t)
    /\ send_queue' = queue_add(send_queue, t)
    /\ send_order' = Append(send_order, t)
    /\ UNCHANGED <<recv_queue, recv_order>>
    /\ pc' = [pc EXCEPT ![t] = "wait"]
    /\ Unlock(t)
    /\ UNCHANGED <<buffer, closed, sem, op, data, last, nCalls, pending,
                   outstanding, owed, heap, requests,
                   service_request,
                   linked_list>>

\* lock, queue_add() of the new request, unlock.
Register(t) ==
    /\ pc[t] = "register"
    /\ Locks(t)
    /\ IF op[t] = "send"
       THEN /\ send_queue' = queue_add(send_queue, t)
            /\ send_order' = Append(send_order, t)
            /\ UNCHANGED <<recv_queue, recv_order>>
       ELSE /\ recv_queue' = queue_add(recv_queue, t)
            /\ recv_order' = Append(recv_order, t)
            /\ UNCHANGED <<send_queue, send_order>>
    /\ pc' = [pc EXCEPT ![t] = "wait"]
    /\ Unlock(t)
    /\ UNCHANGED <<buffer, closed, sem, op, data, last, nCalls, pending,
                   outstanding, owed, heap, requests,
                   service_request,
                   linked_list>>

\* sem_wait(&request->sem)
SemWait(t) ==
    /\ pc[t] = "wait"
    /\ heap # "crashed"
    /\ sem[t] > 0
    /\ sem' = [sem EXCEPT ![t] = @ - 1]
    /\ pc' = [pc EXCEPT ![t] = "retry"]
    /\ UNCHANGED <<buffer, closed, send_queue, recv_queue, op, data, last,
                   nCalls, pending, outstanding, send_order, recv_order, owed,
                   lock, heap, requests, holds,
                   service_request,
                   linked_list>>

\* The second channel_non_blocking_send / _receive of a blocking call,
\* destroy_request() and the return of its result.
Retry(t) ==
    /\ pc[t] = "retry"
    /\ Locks(t)
    /\ LET r == Unsafe(t, Channel) IN
       /\ Store(r.st)
       /\ sem' = r.st.sem
       /\ Account(t, r)
       /\ owed' = Owe(t, r)
       /\ Return(t, r.ret, r.stored)
    /\ requests' = destroy_request(requests, t)
    /\ Unlock(t)
    /\ UNCHANGED <<nCalls, heap, service_request,
                   linked_list>>

\* channel_close: lock, the body, unlock, return.
Close(t) ==
    /\ pc[t] = "close"
    /\ Locks(t)
    /\ LET r == channel_close(Channel) IN
       /\ Store(r.st)
       /\ sem' = r.st.sem
       /\ Return(t, r.ret, <<>>)
    /\ Unlock(t)
    /\ UNCHANGED <<nCalls, pending, outstanding, owed, heap, requests,
                   service_request,
                   linked_list>>

\* A thread calls channel_destroy with the channel, or with NULL, and the call
\* runs to its end: lock, the body, unlock, return; or the fault, after
\* which nothing returns.
Destroy(t, null) ==
    /\ Caller(t)
    /\ heap = "live"
    /\ nCalls < MaxCalls
    /\ nCalls' = nCalls + 1
    /\ ~null => Locks(t)
    /\ LET r == channel_destroy(IF null THEN NULL ELSE <<Channel>>) IN
       /\ lock' = r.lock
       /\ holds' = IF r.lock THEN holds \cup {t} ELSE holds \ {t}
       /\ heap' = r.heap
       /\ IF r.st = NULL
          THEN UNCHANGED <<buffer, closed, send_queue, recv_queue,
                           send_order, recv_order>>
          ELSE Store(r.st[1])
       /\ IF r.ret = <<>>
          THEN UNCHANGED last
          ELSE last' = [op |-> "destroy", ret |-> r.ret[1], out |-> <<>>,
                        selected_index |-> 0, acted |-> {}]
    /\ UNCHANGED <<sem, pc, op, data, pending, outstanding, owed, requests,
                   service_request,
                   linked_list>>

\* A thread inside a call takes its next step on a channel that has been
\* freed.  The access is undefined: it either finds the memory as it was
\* left (the step above of the thread) or faults, which ends the process.
Fault(t) ==
    /\ heap = "freed"
    /\ pc[t] \in {"attempt", "register", "retry", "close"}
    /\ heap' = "crashed"
    /\ UNCHANGED <<buffer, closed, send_queue, recv_queue, sem, pc, op, data,
                   last, nCalls, pending, outstanding, send_order, recv_order,
                   owed, lock, requests, holds,
                   service_request,
                   linked_list>>

SelectLists ==
    UNION {[1..n -> Directions] : n \in 1..MaxSelect}

\* The steps of a thread inside a call.
Step(t) ==
    \/ Attempt(t)
    \/ Register(t)
    \/ SemWait(t)
    \/ Retry(t)
    \/ Close(t)
    \/ Fault(t)

\* A channel_select call of thread t, with some list and some value left in
\* the caller's index.
SelectCall(t) ==
    /\ Caller(t)
    /\ heap = "live"
    /\ nCalls < MaxCalls
    /\ \E list \in SelectLists, index \in 0..MaxSelect :
           Select(t, list, index)

Next ==
    \/ \E t \in Threads, o \in Ops : Call(t, o)
    \/ \E t \in Threads : SelectCall(t)
    \/ \E t \in Threads, null \in BOOLEAN : Destroy(t, null)
    \/ \E t \in Threads : Step(t)

Spec == Init /\ [][Next]_vars

\* Threads inside a call keep running; nobody is obliged to make a call.
FairSpec == Spec /\ \A t \in Threads : WF_vars(Step(t))

-----------------------------------------------------------------------------
\* The same operations with the taking of channel->lock as a step of its
\* own, so that a thread is seen holding the lock while the others run.

\* pthread_mutex_lock(&(channel->lock)) of a thread about to enter one of its
\* critical sections (a non-blocking attempt, the registration, channel_close).
Lock(t) ==
    /\ pc[t] \in {"attempt", "register", "retry", "close"}
    /\ t \notin holds
    /\ Locks(t)
    /\ lock' = TRUE
    /\ holds' = holds \cup {t}
    /\ UNCHANGED <<buffer, closed, send_queue, recv_queue, sem, pc, op, data,
                   last, nCalls, pending, outstanding, send_order, recv_order,
                   owed, heap, requests,
                   service_request,
                   linked_list>>

\* The calls are made by the first thread outside a call; channel_select
\* takes no lock and is left out.
LockNext ==
    \/ \E t \in Threads, o \in Ops : Caller(t) /\ Call(t, o)
    \/ \E t \in Threads : Lock(t)
    \/ \E t \in Threads : Destroy(t, FALSE)
    \/ \E t \in Threads : Step(t)

LockSpec == Init /\ [][LockNext]_vars

-----------------------------------------------------------------------------
\* src/channel.c from its second #include "channel.h" on: the revision in
\* which a blocked call retries in a loop and a queue entry refers to a
\* service_request_t that counts the entries referring to it.  Where a name
\* is taken by the revision above, the definition carries a 2.  A request is
\* identified with the thread that allocated it, an entry with its request;
\* 0 stands for NULL.

\* The channel with the requests.
Channel2 ==
    [buffer |-> buffer, closed |-> closed, send_queue |-> send_queue,
     recv_queue |-> recv_queue, service_request |-> service_request]

init_service_request(srs, r) ==
    [srs EXCEPT ![r] = [alloc |-> "live", valid |-> TRUE, instances |-> 0,
                        sem |-> 0, lock |-> "unlocked"]]

\* pthread_mutex_destroy, sem_destroy and free() leave the bytes of the
\* request as they were: a request that is freed with its lock "locked" had
\* its mutex destroyed while it was locked.
service_request_destroy(srs, r) == [srs EXCEPT ![r].alloc = "freed"]

\* pthread_mutex_lock(&(service_request->lock)).  The request locks are
\* taken only by the thread that holds the channel lock, so a lock that is
\* found locked is held by the thread that locks it again.
request_lock(st, r) ==
    [st EXCEPT !.service_request[r].lock =
                   IF @ = "unlocked" THEN "locked" ELSE "locked_again"]

\* pthread_mutex_unlock(&(service_request->lock))
request_unlock(st, r) ==
    [st EXCEPT !.service_request[r].lock =
                   IF @ = "locked" THEN "unlocked" ELSE "unlocked_not_held"]

queue_add2(st, q, r) ==
    [st EXCEPT ![q] = list_insert(@, r),
               !.service_request[r].instances = @ + 1]

queue_first(queue) == IF queue = <<>> THEN 0 ELSE queue[1]

\* The channel after the removal and the entry that followed the removed one.
queue_remove2(st, q, cr) ==
    LET node == list_find(st[q], cr)
        ret_node == IF node < Len(st[q]) THEN st[q][node + 1] ELSE 0
        dec == [request_lock(st, cr) EXCEPT
                   !.service_request[cr].instances = @ - 1]
        srs == IF dec.service_request[cr].instances = 0
               THEN service_request_destroy(dec.service_request, cr)
               ELSE request_unlock(dec, cr).service_request IN
    [st |-> [dec EXCEPT !.service_request = srs, ![q] = list_remove(@, node)],
     next |-> ret_node]

\* The while loop of serve_request from the entry cr on: the channel when the
\* loop ends and the entry it ends at, whose request is then locked.
RECURSIVE serve_request_loop(_, _, _)
serve_request_loop(st, q, cr) ==
    IF cr = 0
    THEN [st |-> st, cr |-> cr]
    ELSE LET locked == request_lock(st, cr) IN
         IF locked.service_request[cr].valid
         THEN [st |-> locked, cr |-> cr]
         ELSE LET r == queue_remove2(request_unlock(locked, cr), q, cr) IN
              serve_request_loop(r.st, q, r.next)

\* A serve that posts the request of the first entry, valid or not.
serve_request_first(st, q) ==
    LET cr == queue_first(st[q]) IN
    IF cr # 0
    THEN queue_remove2(
             request_unlock(
                 [request_lock(st, cr) EXCEPT
                     !.service_request[cr].sem = @ + 1], cr),
             q, cr).st
    ELSE st

\* The selected_index of the request of a blocking call is NULL.
serve_request(st, q) ==
    LET r == serve_request_loop(st, q, queue_first(st[q])) IN
    IF r.cr # 0
    THEN queue_remove2(
             request_unlock(
                 [r.st EXCEPT !.service_request[r.cr].sem = @ + 1], r.cr),
             q, r.cr).st
    ELSE r.st

\* The loop of clean_request_queue from the entry cr on.  What it writes
\* through service_request->ret is the local variable ret of the waiting
\* call, which that call assigns again before it reads it.
RECURSIVE clean_request_loop(_, _, _)
clean_request_loop(st, q, cr) ==
    IF cr = 0
    THEN st
    ELSE LET r == queue_remove2(
                      request_unlock(
                          [request_lock(st, cr) EXCEPT
                              !.service_request[cr].sem = @ + 1], cr),
                      q, cr) IN
         clean_request_loop(r.st, q, r.next)

clean_request_queue(st, q) == clean_request_loop(st, q, queue_first(st[q]))

channel_unsafe_send2(st, d) ==
    IF st.closed
    THEN [st |-> st, ret |-> CLOSED_ERROR, stored |-> <<>>]
    ELSE IF buffer_full(st.buffer)
    THEN [st |-> st, ret |-> CHANNEL_FULL, stored |-> <<>>]
    ELSE [st |-> [st EXCEPT !.buffer = buffer_add(@, d)], ret |-> SUCCESS,
          stored |-> <<>>]

channel_unsafe_receive2(st) ==
    IF st.closed
    THEN [st |-> st, ret |-> CLOSED_ERROR, stored |-> <<>>]
    ELSE IF buffer_empty(st.buffer)
    THEN [st |-> st, ret |-> CHANNEL_EMPTY, stored |-> <<>>]
    ELSE LET r == buffer_remove(st.buffer) IN
         [st |-> [st EXCEPT !.buffer = r.buffer], ret |-> SUCCESS,
          stored |-> <<r.data>>]

channel_non_blocking_send(st, d) ==
    LET r == channel_unsafe_send2(st, d) IN
    IF r.ret = SUCCESS /\ Len(r.st.recv_queue) # 0
    THEN [r EXCEPT !.st = serve_request(@, "recv_queue")]
    ELSE r

channel_non_blocking_receive(st) ==
    LET r == channel_unsafe_receive2(st) IN
    IF r.ret = SUCCESS /\ Len(r.st.send_queue) # 0
    THEN [r EXCEPT !.st = serve_request(@, "send_queue")]
    ELSE r

channel_close2(st) ==
    IF ~st.closed
    THEN LET c == [st EXCEPT !.closed = TRUE]
             r == IF Len(c.recv_queue) # 0
                  THEN clean_request_queue(c, "recv_queue") ELSE c
             s == IF Len(r.send_queue) # 0
                  THEN clean_request_queue(r, "send_queue") ELSE r IN
         [st |-> s, ret |-> SUCCESS]
    ELSE [st |-> st, ret |-> CLOSED_ERROR]

\* The shared variables become those of st.
Store2(st) ==
    /\ buffer' = st.buffer
    /\ closed' = st.closed
    /\ send_queue' = st.send_queue
    /\ recv_queue' = st.recv_queue
    /\ service_request' = st.service_request

\* The non-blocking call of thread t's operation: the first one of a blocking
\* call and the one at the end of each turn of its while loop, or the whole
\* of a non-blocking call.  The lock is held from the attempt to the end of
\* the serve.
Attempt2(t) ==
    /\ pc[t] = "attempt"
    /\ heap = "live"
    /\ LET r == IF op[t] \in SendOps
                THEN channel_non_blocking_send(Channel2, data[t])
                ELSE channel_non_blocking_receive(Channel2) IN
       /\ Store2(r.st)
       /\ IF Blocks(op[t], r.ret)
          THEN /\ pc' = [pc EXCEPT ![t] = "register"]
               /\ UNCHANGED <<op, data, last>>
          ELSE Return(t, r.ret, r.stored)
    /\ UNCHANGED <<sem, nCalls, pending, outstanding, send_order, recv_order,
                   owed, lock, heap, requests, holds,
                   linked_list>>

\* The locked part of a turn of the while loop.  channel_send and
\* channel_receive both add the request to channel->send_queue.
Register2(t) ==
    /\ pc[t] = "register"
    /\ heap = "live"
    /\ Store2(queue_add2(
           [Channel2 EXCEPT
               !.service_request = init_service_request(@, t)],
           "send_queue", t))
    /\ pc' = [pc EXCEPT ![t] = "wait"]
    /\ UNCHANGED <<sem, op, data, last, nCalls, pending, outstanding,
                   send_order, recv_order, owed, lock, heap, requests, holds,
                   linked_list>>

\* sem_wait(&(request->sem)) returns.  The request may have been freed by the
\* thread that posted it; a wait on freed memory may return, may stay blocked
\* (no step) or may end the program (Fault2).
SemWait2(t) ==
    /\ pc[t] = "wait"
    /\ heap = "live"
    /\ \/ /\ service_request[t].alloc = "live"
          /\ service_request[t].sem > 0
          /\ service_request' = [service_request EXCEPT ![t].sem = @ - 1]
       \/ /\ service_request[t].alloc = "freed"
          /\ UNCHANGED service_request
    /\ pc' = [pc EXCEPT ![t] = "attempt"]
    /\ UNCHANGED <<buffer, closed, send_queue, recv_queue, sem, op, data, last,
                   nCalls, pending, outstanding, send_order, recv_order, owed,
                   lock, heap, requests, holds,
                   linked_list>>

Fault2(t) ==
    /\ pc[t] = "wait"
    /\ heap = "live"
    /\ service_request[t].alloc = "freed"
    /\ heap' = "crashed"
    /\ UNCHANGED <<buffer, closed, send_queue, recv_queue, sem, pc, op, data,
                   last, nCalls, pending, outstanding, send_order, recv_order,
                   owed, lock, requests, holds, service_request,
                   linked_list>>

Close2(t) ==
    /\ pc[t] = "close"
    /\ heap = "live"
    /\ LET r == channel_close2(Channel2) IN
       /\ Store2(r.st)
       /\ Return(t, r.ret, <<>>)
    /\ UNCHANGED <<sem, nCalls, pending, outstanding, send_order, recv_order,
                   owed, lock, heap, requests, holds,
                   linked_list>>

RequestNext ==
    \/ \E t \in Threads, o \in Ops : Caller(t) /\ Call(t, o)
    \/ \E t \in Threads : Attempt2(t)
    \/ \E t \in Threads : Register2(t)
    \/ \E t \in Threads : SemWait2(t)
    \/ \E t \in Threads : Fault2(t)
    \/ \E t \in Threads : Close2(t)

RequestSpec == Init /\ [][RequestNext]_vars

-----------------------------------------------------------------------------
\* serve_request on its own, applied to every queue of at most NThreads
\* entries.  Each entry refers to a request of its own that is valid or has
\* been served through another queue (invalid, its semaphore posted and
\* perhaps already taken by the owner) and that counts this entry and up to
\* MaxInstances - 1 entries of other queues.
MaxInstances == 2

Queues ==
    {q \in UNION {[1..n -> Threads] : n \in 0..NThreads} :
        \A i, j \in DOMAIN q : i # j => q[i] # q[j]}

QueuedRequests ==
    {r \in [alloc : {"live"}, valid : BOOLEAN, instances : 1..MaxInstances,
            sem : 0..1, lock : {"unlocked"}] : r.valid => r.sem = 0}

ServeInit ==
    /\ buffer = <<>>
    /\ closed = FALSE
    /\ send_queue \in Queues
    /\ recv_queue = <<>>
    /\ service_request \in [Threads -> QueuedRequests \cup {NoRequest}]
    /\ \A t \in Threads :
           InQueue(send_queue, t) <=> service_request[t] # NoRequest
    /\ sem = [t \in Threads |-> 0]
    /\ pc = [t \in Threads |-> "idle"]
    /\ op = [t \in Threads |-> "none"]
    /\ data = [t \in Threads |-> 0]
    /\ last = [op |-> "none", ret |-> 0, out |-> <<>>, selected_index |-> 0,
               acted |-> {}]
    /\ nCalls = 0
    /\ pending = <<>>
    /\ outstanding = 0
    /\ send_order = <<>>
    /\ recv_order = <<>>
    /\ owed = [t \in Threads |-> FALSE]
    /\ lock = FALSE
    /\ holds = {}
    /\ heap = "live"
    /\ requests = [t \in Threads |-> "none"]
    /\ linked_list = list_create("NULL")

\* if(channel->send_queue->count) serve_request(channel, channel->send_queue)
Serve ==
    /\ Len(send_queue) # 0
    /\ Store2(serve_request(Channel2, "send_queue"))
    /\ UNCHANGED <<sem, pc, op, data, last, nCalls, pending, outstanding,
                   send_order, recv_order, owed, lock, heap, requests, holds,
                   linked_list>>

ServeNext == Serve

ServeSpec == ServeInit /\ [][ServeNext]_vars

-----------------------------------------------------------------------------
\* linked_list.c on its own: a list created with or without a compare
\* function, and any sequence of list_insert and list_remove on it, ended
\* perhaps by list_destroy.  send_order is the order in which the nodes that
\* are still in the list were inserted.

\* The nodes met from node n on by following next, k at most.
RECURSIVE Forward(_, _, _)
Forward(l, n, k) ==
    IF n = 0 \/ k = 0 THEN <<>>
    ELSE <<n>> \o Forward(l, list_next(l, n), k - 1)

\* The nodes met from node n on by following prev, k at most.
RECURSIVE Backward(_, _, _)
Backward(l, n, k) ==
    IF n = 0 \/ k = 0 THEN <<>>
    ELSE <<n>> \o Backward(l, list_prev(l, n), k - 1)

\* The nodes of the list from the head on; a list longer than MaxNodes has a
\* cycle.
ListNodes(l) == Forward(l, list_head(l), MaxNodes + 1)

ListInit ==
    /\ linked_list \in {list_create(fn) : fn \in Compares}
    /\ buffer = <<>>
    /\ closed = FALSE
    /\ send_queue = <<>>
    /\ recv_queue = <<>>
    /\ service_request = [t \in Threads |-> NoRequest]
    /\ sem = [t \in Threads |-> 0]
    /\ pc = [t \in Threads |-> "idle"]
    /\ op = [t \in Threads |-> "none"]
    /\ data = [t \in Threads |-> 0]
    /\ last = [op |-> "none", ret |-> 0, out |-> <<>>, selected_index |-> 0,
               acted |-> {}]
    /\ nCalls = 0
    /\ pending = <<>>
    /\ outstanding = 0
    /\ send_order = <<>>
    /\ recv_order = <<>>
    /\ owed = [t \in Threads |-> FALSE]
    /\ lock = FALSE
    /\ holds = {}
    /\ heap = "live"
    /\ requests = [t \in Threads |-> "none"]

\* list_insert(list, d); malloc returns a node that is not allocated.
ListInsert(n, d) ==
    /\ linked_list.alloc = "live"
    /\ linked_list.node[n].alloc # "live"
    /\ linked_list' = list_insert_node(linked_list, n, d)
    /\ send_order' = Append(send_order, n)
    /\ UNCHANGED <<buffer, closed, send_queue, recv_queue, sem, pc, op, data,
                   last, nCalls, pending, outstanding, recv_order, owed, lock,
                   heap, requests, holds, service_request>>

\* list_remove(list, n) for a node n of the list.
ListRemove(n) ==
    /\ linked_list.alloc = "live"
    /\ \E i \in DOMAIN ListNodes(linked_list) : ListNodes(linked_list)[i] = n
    /\ linked_list' = list_remove_node(linked_list, n)
    /\ send_order' = SelectSeq(send_order, LAMBDA m : m # n)
    /\ UNCHANGED <<buffer, closed, send_queue, recv_queue, sem, pc, op, data,
                   last, nCalls, pending, outstanding, recv_order, owed, lock,
                   heap, requests, holds, service_request>>

ListDestroy ==
    /\ linked_list.alloc = "live"
    /\ linked_list' = list_destroy(linked_list)
    /\ send_order' = <<>>
    /\ UNCHANGED <<buffer, closed, send_queue, recv_queue, sem, pc, op, data,
                   last, nCalls, pending, outstanding, recv_order, owed, lock,
                   heap, requests, holds, service_request>>

ListNext ==
    \/ \E n \in Nodes, d \in 1..MaxData : ListInsert(n, d)
    \/ \E n \in Nodes : ListRemove(n)
    \/ ListDestroy

ListSpec == ListInit /\ [][ListNext]_vars

-----------------------------------------------------------------------------
\* Properties.

Count(seq, v) == Cardinality({i \in 1..Len(seq) : seq[i] = v})

Elems(seq) == {seq[i] : i \in 1..Len(seq)}

\* Thread t returns from its call in this step.
Returns(t) == pc[t] # "idle" /\ pc'[t] = "idle"

\* Thread u is taken out of queue in this step.
Served(queue, queue2, u) == InQueue(queue, u) /\ ~InQueue(queue2, u)

\* C1: No lost or duplicated messages.  While the channel is open, the number
\* of sends that returned SUCCESS equals the number of receives that returned
\* SUCCESS plus the occupancy of the buffer, and the buffer holds exactly the
\* messages of successful sends that no successful receive has been given,
\* each once.
C1_NoLostMessages ==
    ~closed =>
        /\ outstanding = Len(buffer)
        /\ \A v \in Elems(buffer) \cup Elems(pending) :
               Count(buffer, v) = 1 /\ Count(pending, v) = 1

\* A receive has returned the message of a send of this run, and another
\* message is still in the open channel.
C1_Witness ==
    /\ ~closed
    /\ last.op \in RecvOps
    /\ last.ret = SUCCESS
    /\ last.out # <<>>
    /\ last.out[1] > 0
    /\ buffer # <<>>

\* C2: Wakeup liveness.  On a channel that is never closed, a blocking call
\* that failed its attempt and to which the success of the complementary
\* operation is owed eventually returns SUCCESS (which is what ends the
\* debt, unless another call of its kind succeeds in its place).  Stated for
\* the runs that stay within the call budget of the model, so that a thread
\* left waiting is left by the code, and in which the channel is not
\* destroyed.
C2_WakeupLiveness ==
    \/ <>(closed \/ nCalls = MaxCalls \/ heap # "live")
    \/ \A u \in Threads : owed[u] ~> ~owed[u]

\* C3: Close liveness.  Once the channel is closed, every thread inside a
\* blocking send or receive returns, and returns CLOSED_ERROR (the state it
\* returns into has its call as the last one returned).  Stated for the runs
\* that stay within the call budget of the model and in which the channel is
\* not destroyed.
C3_CloseLiveness ==
    \/ <>(nCalls = MaxCalls \/ heap # "live")
    \/ \A t \in Threads :
           (closed /\ op[t] \in BlockingOps)
               ~> (op[t] = "none" /\ last.op \in BlockingOps
                   /\ last.ret = CLOSED_ERROR)

\* C4: A blocking channel_send or channel_receive returns only SUCCESS or
\* CLOSED_ERROR, never CHANNEL_FULL / CHANNEL_EMPTY.
C4_BlockingNeverFullOrEmpty ==
    last.op \in BlockingOps => last.ret \in {SUCCESS, CLOSED_ERROR}

\* C5: FIFO among the waiters of one direction.  On the open channel, the
\* thread taken out of a waiter queue to be served is the one that was
\* registered in it first.
C5_WaitersServedInOrder ==
    [][~closed' =>
         \A u \in Threads :
            /\ Served(send_queue, send_queue', u) => u = Head(send_order)
            /\ Served(recv_queue, recv_queue', u) => u = Head(recv_order)]_vars

\* C6: On a closed channel a send, receive or non-blocking variant returns
\* CLOSED_ERROR from its first attempt, so without waiting, and transfers
\* nothing: the buffer keeps its contents and nothing is stored for a
\* receiver.
C6_ClosedChannelRefuses ==
    [][\A t \in Threads :
          closed /\ pc[t] = "attempt" /\ pc'[t] # "attempt" =>
              /\ pc'[t] = "idle"
              /\ last'.op = op[t]
              /\ last'.ret = CLOSED_ERROR
              /\ last'.out = <<>>
              /\ buffer' = buffer]_vars

\* A receive has returned CLOSED_ERROR while the closed channel holds a
\* message and has a free slot.
C6_Witness ==
    /\ closed
    /\ last.op = "recv"
    /\ last.ret = CLOSED_ERROR
    /\ buffer # <<>>
    /\ Len(buffer) < Capacity

\* C7: The result of a non-blocking operation is decided by the channel as it
\* is when the operation runs: CLOSED_ERROR if closed, otherwise CHANNEL_FULL
\* for a send when occupancy = capacity and CHANNEL_EMPTY for a receive when
\* occupancy = 0, otherwise SUCCESS.
C7_NonBlockingResult ==
    [][\A t \in Threads :
          pc[t] = "attempt" /\ op[t] \in {"nb_send", "nb_recv"} /\ Returns(t)
          => last'.ret =
                 IF closed THEN CLOSED_ERROR
                 ELSE IF op[t] = "nb_send"
                 THEN (IF Len(buffer) = Capacity THEN CHANNEL_FULL ELSE SUCCESS)
                 ELSE (IF Len(buffer) = 0 THEN CHANNEL_EMPTY ELSE SUCCESS)]_vars

\* A non-blocking send has returned CHANNEL_FULL on the open, full channel.
C7_Witness ==
    /\ ~closed
    /\ last.op = "nb_send"
    /\ last.ret = CHANNEL_FULL
    /\ Len(buffer) = Capacity

\* C8: A non-blocking send that returns CHANNEL_FULL or CLOSED_ERROR leaves
\* the buffer and the closed flag as they were; a non-blocking receive that
\* returns CHANNEL_EMPTY or CLOSED_ERROR leaves the buffer as it was and
\* stores nothing through the data pointer.
C8_FailedNonBlockingFrame ==
    [][\A t \in Threads :
          /\ op[t] = "nb_send" /\ Returns(t)
             /\ last'.ret \in {CHANNEL_FULL, CLOSED_ERROR}
             => buffer' = buffer /\ closed' = closed
          /\ op[t] = "nb_recv" /\ Returns(t)
             /\ last'.ret \in {CHANNEL_EMPTY, CLOSED_ERROR}
             => buffer' = buffer /\ last'.out = <<>>]_vars

\* A non-blocking receive has returned CLOSED_ERROR while the closed channel
\* holds a message.
C8_Witness ==
    /\ closed
    /\ last.op = "nb_recv"
    /\ last.ret = CLOSED_ERROR
    /\ last.out = <<>>
    /\ buffer # <<>>

\* C9: Buffer order.  A receive that returns SUCCESS stores the oldest
\* message of the successful sends not yet received; on the open channel a
\* non-blocking send with Capacity messages outstanding returns CHANNEL_FULL
\* and a non-blocking receive with none outstanding returns CHANNEL_EMPTY.
C9_BufferOrder ==
    [][\A t \in Threads :
          Returns(t) =>
              /\ op[t] \in RecvOps /\ last'.ret = SUCCESS
                 => pending # <<>> /\ last'.out = <<Head(pending)>>
              /\ op[t] = "nb_send" /\ ~closed /\ Len(pending) = Capacity
                 => last'.ret = CHANNEL_FULL
              /\ op[t] = "nb_recv" /\ ~closed /\ Len(pending) = 0
                 => last'.ret = CHANNEL_EMPTY]_vars

\* Of two messages sent in this run, the first has been received and the
\* second is the one left in the buffer.
C9_Witness ==
    /\ last.op \in RecvOps
    /\ last.ret = SUCCESS
    /\ last.out = <<1>>
    /\ buffer = <<2>>

\* C10: When channel_select returns, at most one of the listed operations
\* has been performed, and selected_index names the one that was.
C10_SelectPerformsTheSelected ==
    last.op = "select" =>
        /\ Cardinality(last.acted) <= 1
        /\ \E i \in last.acted : last.selected_index = i

\* The indices of the operations of list that can be performed at once on
\* the channel as it is.
Possible(list) ==
    {i \in 0..(Len(list) - 1) :
        /\ ~closed
        /\ IF list[i + 1] = "SEND" THEN ~buffer_full(buffer)
                                   ELSE ~buffer_empty(buffer)}

Min(S) == CHOOSE i \in S : \A j \in S : i <= j

\* C11: Select picks the ready one.  A channel_select call made when at least
\* one listed operation is possible performs the possible operation of
\* lowest index and no other, returns SUCCESS with that index in
\* selected_index, and the buffer has one message more (SEND) or one less
\* (RECV).
C11_SelectPicksReady ==
    [][\A t \in Threads, list \in SelectLists, index \in 0..MaxSelect :
          Select(t, list, index) /\ Possible(list) # {} =>
              LET i == Min(Possible(list)) IN
              /\ last'.ret = SUCCESS
              /\ last'.selected_index = i
              /\ last'.acted = {i}
              /\ Len(buffer') = Len(buffer)
                     + (IF list[i + 1] = "SEND" THEN 1 ELSE 0 - 1)]_vars

\* C12: Select blocks.  channel_select does not return while the channel is
\* open and none of the listed operations is possible.
C12_SelectBlocksUntilPossible ==
    [][\A t \in Threads, list \in SelectLists, index \in 0..MaxSelect :
          Select(t, list, index) => closed \/ Possible(list) # {}]_vars

\* C13: Select closure propagation.  A channel_select call on a list whose
\* channel is closed returns CLOSED_ERROR with the index of an entry of the
\* list in selected_index.
C13_SelectReportsClosed ==
    [][\A t \in Threads, list \in SelectLists, index \in 0..MaxSelect :
          Select(t, list, index) /\ closed =>
              /\ last'.ret = CLOSED_ERROR
              /\ last'.selected_index \in 0..(Len(list) - 1)]_vars

\* C14: Close idempotence.  channel_close on a closed channel returns
\* CLOSED_ERROR and leaves the buffer, the closed flag, both waiter queues
\* and every request semaphore as they were; on an open channel it returns
\* SUCCESS.
C14_CloseIdempotent ==
    [][\A t \in Threads :
          pc[t] = "close" /\ Returns(t) =>
              IF closed
              THEN /\ last'.ret = CLOSED_ERROR
                   /\ UNCHANGED <<buffer, closed, send_queue, recv_queue, sem>>
              ELSE last'.ret = SUCCESS]_vars

\* A second close has returned CLOSED_ERROR while a request is in a waiter
\* queue of the closed channel.
C14_Witness ==
    /\ closed
    /\ last.op = "close"
    /\ last.ret = CLOSED_ERROR
    /\ Len(send_queue) + Len(recv_queue) > 0

\* C15: When channel_close returns SUCCESS, both waiter queues of the channel
\* are empty.
C15_CloseEmptiesQueues ==
    [][\A t \in Threads :
          pc[t] = "close" /\ Returns(t) /\ last'.ret = SUCCESS =>
              send_queue' = <<>> /\ recv_queue' = <<>>]_vars

\* C16: channel_destroy on an open channel returns DESTROY_ERROR, leaves the
\* lock free and the channel as it was: nothing is freed, and the buffer,
\* the waiter queues, the semaphores and the closed flag are unchanged.
C16_DestroyOpenRefused ==
    [][\A t \in Threads :
          Destroy(t, FALSE) /\ ~closed =>
              /\ last'.op = "destroy"
              /\ last'.ret = DESTROY_ERROR
              /\ ~lock'
              /\ heap' = "live"
              /\ UNCHANGED <<buffer, closed, send_queue, recv_queue, sem>>]_vars

\* A destroy has returned DESTROY_ERROR on the open channel while a request
\* is queued on it.
C16_Witness ==
    /\ ~closed
    /\ heap = "live"
    /\ last.op = "destroy"
    /\ last.ret = DESTROY_ERROR
    /\ Len(send_queue) + Len(recv_queue) > 0

C18_DestroyNullRefused ==
    [][\A t \in Threads :
          Destroy(t, TRUE) =>
              /\ last'.op = "destroy"
              /\ last'.ret = GEN_ERROR
              /\ heap' = heap
              /\ UNCHANGED <<buffer, closed, send_queue, recv_queue, sem,
                             lock>>]_vars

\* C19: The closed flag is false after create, is set only by a
\* channel_close, and is never set back to false.
C19_ClosedMonotonic ==
    /\ ~closed
    /\ [][/\ closed => closed'
          /\ closed' # closed =>
                 \E t \in Threads : pc[t] = "close" /\ Returns(t)]_vars

\* The channel is still closed after a close that found it closed.
C19_Witness ==
    /\ closed
    /\ last.op = "close"
    /\ last.ret = CLOSED_ERROR

C23_AttemptAndRegistrationAtomic ==
    [][\A t \in Threads :
          pc[t] = "register" /\ pc'[t] = "register" =>
              UNCHANGED <<buffer, closed>>]_vars

\* C24: No waiter is enqueued on a closed channel.  Once the channel is
\* closed and both waiter queues are empty, they stay empty.
C24_NoWaiterOnClosed ==
    [][closed /\ send_queue = <<>> /\ recv_queue = <<>> =>
          send_queue' = <<>> /\ recv_queue' = <<>>]_vars

Posted == {u \in Threads : sem'[u] > sem[u]}

\* C26: One wake-up per event.  A send that succeeds on the open channel
\* posts exactly one request, once, taken out of the receive waiter queue,
\* if that queue holds one, and posts nothing otherwise; a receive that
\* succeeds does the same with the send waiter queue.  No successful
\* operation posts two requests, or one request twice, and none touches the
\* queue of its own direction.
C26_OneWakeupPerEvent ==
    [][\A t \in Threads :
          Returns(t) /\ op[t] \in SendOps \cup RecvOps /\ ~closed
          /\ last'.ret = SUCCESS =>
              LET opp == IF op[t] \in SendOps THEN recv_queue ELSE send_queue
                  opp2 == IF op[t] \in SendOps THEN recv_queue' ELSE send_queue'
                  own == IF op[t] \in SendOps THEN send_queue ELSE recv_queue
                  own2 == IF op[t] \in SendOps THEN send_queue' ELSE recv_queue'
              IN  /\ own2 = own
                  /\ \A u \in Posted : sem'[u] = sem[u] + 1
                  /\ IF opp = <<>>
                     THEN Posted = {} /\ opp2 = <<>>
                     ELSE /\ Cardinality(Posted) = 1
                          /\ Len(opp2) = Len(opp) - 1
                          /\ \A u \in Posted :
                                 InQueue(opp, u) /\ ~InQueue(opp2, u)]_vars

\* A receive has succeeded on the open channel with two senders waiting: one
\* of them has been posted and the other is still in the send waiter queue.
C26_Witness ==
    /\ ~closed
    /\ last.op \in RecvOps
    /\ last.ret = SUCCESS
    /\ \E u, v \in Threads :
           /\ op[u] = "send" /\ pc[u] = "wait" /\ sem[u] = 1
           /\ op[v] = "send" /\ pc[v] = "wait" /\ sem[v] = 0
           /\ send_queue = <<v>>

\* C27: The buffer operation comes before the wake-up.  On the open channel
\* a request is posted only after the buffer operation of the successful
\* send or receive that posts it, so a posted sender is left a free slot and
\* a posted receiver a message; and the operation of the waiter that was
\* served finds them: run on the open channel, it yields SUCCESS.
C27_BufferOpBeforeWakeup ==
    [][/\ ~closed' =>
              \A u \in Posted :
                  /\ op[u] = "send" => Len(buffer') < Capacity
                  /\ op[u] = "recv" => Len(buffer') > 0
       /\ \A t \in Threads :
              pc[t] = "retry" /\ Returns(t) /\ ~closed =>
                  last'.ret = SUCCESS]_vars

Posted2 == {r \in Threads : service_request'[r].sem > service_request[r].sem}

\* C28: Validity flip.  The valid flag of a request changes from true to
\* false exactly once, in the step of the thread that serves or cancels the
\* request, that is, the step that posts its semaphore; a request that is
\* still valid has not had its semaphore posted.
C28_ValidityFlip ==
    /\ [](\A r \in Threads :
            service_request[r].alloc = "live" /\ service_request[r].valid =>
                service_request[r].sem = 0)
    /\ [][\A r \in Threads :
            /\ r \in Posted2 =>
                   service_request[r].valid /\ ~service_request'[r].valid
            /\ (/\ service_request[r].alloc = "live"
                /\ service_request'[r].valid # service_request[r].valid) =>
                   /\ service_request[r].valid
                   /\ r \in Posted2]_vars

\* The number of entries at the head of queue whose request is invalid.
StalePrefix(queue) ==
    CHOOSE k \in 0..Len(queue) :
        /\ \A i \in 1..k : ~service_request[queue[i]].valid
        /\ k < Len(queue) => service_request[queue[k + 1]].valid

\* C30: Stale entries.  When a queue is served, every entry at its head whose
\* request is already invalid is removed, each removal dropping one reference
\* of its request (which is freed with its last one) and posting nothing; the
\* scan goes on until it has served one valid request, which is posted and
\* whose entry is removed, or the queue is empty; the entries behind are
\* left as they were, in their order.
C30_StaleEntriesSkipped ==
    [][LET k == StalePrefix(send_queue)
           n == IF k < Len(send_queue) THEN k + 1 ELSE k IN
       /\ send_queue' = SubSeq(send_queue, n + 1, Len(send_queue))
       /\ \A i \in 1..n :
              LET r == send_queue[i] IN
              /\ service_request'[r].instances =
                     service_request[r].instances - 1
              /\ service_request'[r].alloc =
                     IF service_request'[r].instances = 0
                     THEN "freed" ELSE "live"
              /\ service_request'[r].valid = service_request[r].valid
              /\ service_request'[r].sem =
                     IF i > k THEN service_request[r].sem + 1
                     ELSE service_request[r].sem
       /\ \A i \in (n + 1)..Len(send_queue) :
              service_request'[send_queue[i]] =
                  service_request[send_queue[i]]]_vars

\* Every thread had an entry in the queue; one serve has removed the stale
\* entry at the head and served the valid request behind it, and entries
\* remain.
C30_Witness ==
    /\ \A t \in Threads : service_request[t].alloc # "none"
    /\ Len(send_queue) = NThreads - 2
    /\ Len(send_queue) > 0
    /\ \E r, u \in Threads :
           /\ ~InQueue(send_queue, r) /\ ~InQueue(send_queue, u)
           /\ ~service_request[r].valid
           /\ service_request[u].valid /\ service_request[u].sem = 1

\* C31: channel_close performs no buffer operation.  The step in which a
\* thread runs the body of channel_close and returns, whatever it returns and
\* however many senders and receivers are queued, leaves the buffer with the
\* contents and the occupancy it had.
C31_CloseLeavesBuffer ==
    [][\A t \in Threads :
          pc[t] = "close" /\ pc'[t] # "close" => buffer' = buffer]_vars

\* channel_close has returned SUCCESS on a full buffer and has posted a
\* sender that was queued and has not yet woken up.
C31_Witness ==
    /\ last.op = "close" /\ last.ret = SUCCESS
    /\ closed
    /\ Len(buffer) = Capacity
    /\ \E u \in Threads : op[u] = "send" /\ pc[u] = "wait" /\ sem[u] = 1

\* The data of the nodes of the list from the head on.
ListData(l) ==
    [i \in DOMAIN ListNodes(l) |-> list_data(l, ListNodes(l)[i])]

\* C32: On a list created without a compare function list_insert places the
\* new node at the head: the list after the insert is the new element
\* followed by the list before it, so that the entry queue_next returns is
\* the one just inserted, and at any time the head of the list is the most
\* recently inserted of the nodes still in it.
C32_InsertAtHead ==
    /\ [](/\ linked_list.alloc = "live"
          /\ linked_list.compare = "NULL"
          /\ send_order # <<>>
          => list_head(linked_list) = send_order[Len(send_order)])
    /\ [][linked_list.compare = "NULL" /\ Len(send_order') > Len(send_order) =>
              LET n == send_order'[Len(send_order')]
                  d == list_data(linked_list', n) IN
              /\ list_head(linked_list') = n
              /\ ListData(linked_list') = list_insert(ListData(linked_list), d)
              /\ queue_next(ListData(linked_list')) = d]_vars

\* Three inserts and the removal of the second node inserted: the head is the
\* third node, in front of the first.
C32_Witness ==
    /\ linked_list.alloc = "live"
    /\ linked_list.compare = "NULL"
    /\ Len(send_order) = 2
    /\ \E n \in Nodes : linked_list.node[n].alloc = "freed"
    /\ ListNodes(linked_list) = <<send_order[2], send_order[1]>>

\* C37: Linked-list structure.  After any sequence of list_insert and
\* list_remove, with or without a compare function, no NULL pointer has been
\* dereferenced; count is the number of nodes met from head through next,
\* which are distinct and allocated; head is NULL iff tail is NULL iff count
\* is 0; head->prev and tail->next are NULL; the nodes met from tail through
\* prev are those met from head through next in reverse order; a node that
\* list_remove has freed was a node of the list and is none any more; and
\* list_destroy leaves no node allocated.
C37_ListStructure ==
    /\ [](LET l == linked_list
              f == ListNodes(l)
              b == Backward(l, list_tail(l), MaxNodes + 1) IN
          /\ l.alloc # "crashed"
          /\ l.alloc = "live" =>
                 /\ list_count(l) = Len(f)
                 /\ \A i, j \in DOMAIN f : i # j => f[i] # f[j]
                 /\ \A i \in DOMAIN f : l.node[f[i]].alloc = "live"
                 /\ (list_head(l) = 0) <=> (list_tail(l) = 0)
                 /\ (list_head(l) = 0) <=> (list_count(l) = 0)
                 /\ list_head(l) # 0 =>
                        /\ list_prev(l, list_head(l)) = 0
                        /\ list_next(l, list_tail(l)) = 0
                 /\ Len(b) = Len(f)
                 /\ \A i \in DOMAIN f : b[i] = f[Len(f) + 1 - i]
          /\ l.alloc = "freed" =>
                 \A n \in Nodes : l.node[n].alloc # "live")
    /\ [][\A n \in Nodes :
              /\ linked_list.node[n].alloc = "live"
              /\ linked_list'.node[n].alloc # "live"
              => /\ \E i \in DOMAIN ListNodes(linked_list) :
                        ListNodes(linked_list)[i] = n
                 /\ \A i \in DOMAIN ListNodes(linked_list') :
                        ListNodes(linked_list')[i] # n]_vars

\* A list with a compare function after two inserts that are still in it
\* and a removal: the node inserted last holds the smaller data and was
\* placed before the other one.
C37_Witness ==
    /\ linked_list.alloc = "live"
    /\ linked_list.compare = "order"
    /\ list_count(linked_list) = 2
    /\ \E n \in Nodes : linked_list.node[n].alloc = "freed"
    /\ Len(send_order) = 2
    /\ ListNodes(linked_list) = <<send_order[2], send_order[1]>>
    /\ list_data(linked_list, send_order[2]) <
           list_data(linked_list, send_order[1])

\* C35: Buffer bound.  In every state the occupancy of the buffer is at most
\* its capacity (and, a length, at least 0); a step that adds to the buffer
\* adds one element to a buffer that is not full, and a step that removes
\* from it removes one element from a buffer that is not empty.
C35_BufferBound ==
    /\ [](Len(buffer) >= 0 /\ Len(buffer) <= Capacity)
    /\ [][/\ Len(buffer') > Len(buffer) =>
                 /\ ~buffer_full(buffer)
                 /\ Len(buffer) < Capacity
                 /\ Len(buffer') = Len(buffer) + 1
          /\ Len(buffer') < Len(buffer) =>
                 /\ ~buffer_empty(buffer)
                 /\ Len(buffer) > 0
                 /\ Len(buffer') = Len(buffer) - 1]_vars

\* A send has filled the buffer and a non-blocking send has then been
\* refused with CHANNEL_FULL.
C35_Witness ==
    /\ Len(buffer) = Capacity
    /\ \E i \in DOMAIN buffer : buffer[i] > 0
    /\ last.op = "nb_send" /\ last.ret = CHANNEL_FULL

\* C36: Waiter-queue consistency.  In every state each entry of the send or
\* the receive queue refers to an allocated request whose owner is inside a
\* blocking call on the channel, past its registration and not yet back
\* from its wait, and whose semaphore has not been posted; and no thread has
\* more than one entry in the two queues together.
C36_WaiterQueueConsistency ==
    \A u \in Threads :
        /\ InQueue(send_queue, u) \/ InQueue(recv_queue, u) =>
               /\ op[u] \in BlockingOps
               /\ pc[u] = "wait"
               /\ requests[u] = "live"
               /\ sem[u] = 0
        /\ Count(send_queue, u) + Count(recv_queue, u) <= 1

\* Two threads wait in channel_receive on the open channel, each with its
\* own entry in the receive queue and its semaphore at 0.
C36_Witness ==
    /\ Len(recv_queue) = 2
    /\ recv_queue[1] # recv_queue[2]
    /\ \A i \in 1..2 : pc[recv_queue[i]] = "wait" /\ sem[recv_queue[i]] = 0
    /\ ~closed

\* C33: Lock discipline of the request locks.  No request lock is unlocked
\* while it is not held, none is locked by a thread that already holds it,
\* and none is destroyed while it is locked: every lock is "locked" or
\* "unlocked", and that of a freed request was unlocked when the request was
\* destroyed.
C33_LockDiscipline ==
    \A r \in Threads :
        /\ service_request[r].lock \in {"locked", "unlocked"}
        /\ service_request[r].alloc = "freed" =>
               service_request[r].lock = "unlocked"

\* C34: No use after free.  No request is freed while its owner may still
\* wait on its semaphore: the request of a thread that is at its sem_wait is
\* allocated; every queue entry refers to an allocated request; and no wait
\* on freed memory has ended the program.
C34_NoUseAfterFree ==
    /\ \A t \in Threads :
           /\ pc[t] = "wait" => service_request[t].alloc = "live"
           /\ InQueue(send_queue, t) \/ InQueue(recv_queue, t) =>
                  service_request[t].alloc = "live"
    /\ heap # "crashed"

====
